---------------------------- MODULE Spec2Model ----------------------------
(***************************************************************************)
(* A model of the order construction and analytics code of zipline:        *)
(*   lib/strategies/cf_strategy.py   CFStrategy (quantity ladder, batches) *)
(*   lib/strategies/orders.py        easy_bracket, smart_bracket,          *)
(*                                   auto_pegged                           *)
(*   lib/calculations/price_calcs.py calc_differentials,                   *)
(*                                   scaled_price_change, pca_analysis     *)
(*   lib/strategies/strategies.py    the strategy builders                 *)
(*                                                                         *)
(* Units.  Quotes and bar prices are on the cent grid and are held as      *)
(* integers in cents.  Prices computed from bar statistics (mean, std,     *)
(* linspace) are held in units of 1/PriceScale cent.  Python floats are    *)
(* IEEE doubles; where a double's rounding decides the result (an integer  *)
(* truncation, a ceil, a round to 2 places) the operator states how the    *)
(* double rounds, and where the model cannot decide it (a decimal tie of   *)
(* round(x, 2)) both outcomes are allowed.                                 *)
(***************************************************************************)
EXTENDS Integers, Sequences, FiniteSets, TLC

VARIABLES
    etf_bars,       \* CFStrategy.etf_bars: symbol -> sequence of daily bars
    quotes,         \* the API's quote snapshot: symbol -> askPrice, last price
    etf_positions,  \* CFStrategy.etf_positions: sequence of sellable positions
    est_return,     \* the Series _estimate_30_day_return returns: symbol -> score
    saved_orders,   \* the orders handed to the API's create_saved_order, in order
    call,           \* the call in progress or last made: its name and arguments
    ret             \* how that call ended: its return value or the error raised

vars == <<etf_bars, quotes, etf_positions, est_return, saved_orders, call, ret>>

-----------------------------------------------------------------------------
(* Bounds of the model.                                                    *)

\* Largest number_shares handed to create_sell_orders / create_buy_orders.
MaxShares == 105
\* Longest bar history of a symbol in the ladder specification.
MaxBars == 3
\* Units per cent in which bar statistics and ladder prices are computed.
PriceScale == 100

-----------------------------------------------------------------------------
(* Helpers: Python built-ins used by the code.                             *)

RECURSIVE SumSeq(_)
\* sum(list)
SumSeq(s) == IF s = <<>> THEN 0 ELSE Head(s) + SumSeq(Tail(s))

\* range(a, b) as a list
Range(a, b) == [i \in 1..(b - a) |-> a + i - 1]

\* min(a, b)
Min(a, b) == IF a < b THEN a ELSE b

RECURSIVE IsqrtIter(_, _, _)
\* Largest r in lo..hi with r*r <= v (bisection).
IsqrtIter(v, lo, hi) ==
    IF lo >= hi THEN lo
    ELSE LET mid == (lo + hi + 1) \div 2
         IN  IF mid * mid <= v THEN IsqrtIter(v, mid, hi)
             ELSE IsqrtIter(v, lo, mid - 1)

\* The square root, to the unit of its argument's root.
Isqrt(v) == IsqrtIter(v, 0, 46340)

-----------------------------------------------------------------------------
(* cf_strategy.py: the quantity ladder of create_sell_orders and           *)
(* create_buy_orders (lines 131-136 and 164-169, the same code).           *)

\* The literal 20 of int(min(20, number_shares)).
OrderCap == 20

\* MAX_NUMBER_ORDERS = int(min(20, number_shares))
MAX_NUMBER_ORDERS(number_shares) == Min(OrderCap, number_shares)

\* quantities = [2*x for x in range(1, MAX_NUMBER_ORDERS)]
Weights(number_shares) ==
    LET r == Range(1, MAX_NUMBER_ORDERS(number_shares))
    IN  [j \in 1..Len(r) |-> 2 * r[j]]

\* scale = float(number_shares) / float(sum(quantities)) raises
\* ZeroDivisionError when the weight list is empty (its sum is 0.0).
ScaleRaises(number_shares) == SumSeq(Weights(number_shares)) = 0

\* Mutant of ScaledQuantity: the quotient rounded up instead of truncated.
ScaledQuantity_RoundUp(number_shares, q) ==
    (number_shares * q + SumSeq(Weights(number_shares)) - 1)
        \div SumSeq(Weights(number_shares))

\* int(scale*q): the double product truncated.  For number_shares < 530 the
\* double scale*q truncates to floor(number_shares*q / sum), the exact
\* quotient (from 530 on it can fall one below an exact integer quotient).
ScaledQuantity(number_shares, q) ==
    (number_shares * q) \div SumSeq(Weights(number_shares))

\* Mutant of Quantities: the tranches that truncate to 0 are kept.
Quantities_KeepZero(number_shares) ==
    LET w == Weights(number_shares)
    IN  [j \in 1..Len(w) |-> ScaledQuantity(number_shares, w[j])]

\* quantities = [int(scale*q) for q in quantities if int(scale*q) != 0]
Quantities(number_shares) ==
    LET w == Weights(number_shares)
        scaled == [j \in 1..Len(w) |-> ScaledQuantity(number_shares, w[j])]
    IN  SelectSeq(scaled, LAMBDA q : q # 0)


-----------------------------------------------------------------------------
(* Floating-point values that may be NaN (pandas statistics of too short a *)
(* series).  A number is [nan |-> FALSE, v |-> n], n in units of           *)
(* 1/PriceScale cent.                                                      *)

\* float('nan')
NaN == [nan |-> TRUE, v |-> 0]

\* A finite value.
Num(n) == [nan |-> FALSE, v |-> n]

\* a <= b on floats: False when either side is NaN.
FLeq(a, b) == ~a.nan /\ ~b.nan /\ a.v <= b.v

\* Series.mean(): NaN for an empty series.  xs are in cents.
Mean(xs) ==
    IF Len(xs) = 0 THEN NaN
    ELSE Num((SumSeq(xs) * PriceScale) \div Len(xs))

\* Series.std(): the sample standard deviation (ddof = 1), NaN for fewer
\* than two values.  sum((x - mean)^2) = (n*sum(x^2) - sum(x)^2) / n.
Std(xs) ==
    LET n  == Len(xs)
        s1 == SumSeq(xs)
        s2 == SumSeq([i \in 1..n |-> xs[i] * xs[i]])
    IN  IF n < 2 THEN NaN
        ELSE Num(Isqrt(((n * s2 - s1 * s1) * PriceScale * PriceScale)
                        \div (n * (n - 1))))

\* numpy.linspace(start, stop, num): num evenly spaced values, the last one
\* set to stop when num > 1; every value is NaN when start or stop is.
Linspace(start, stop, num) ==
    [j \in 1..num |->
        IF start.nan \/ stop.nan THEN NaN
        ELSE IF num > 1 /\ j = num THEN stop
        ELSE IF num = 1 THEN start
        ELSE Num(start.v + ((j - 1) * (stop.v - start.v)) \div (num - 1))]

-----------------------------------------------------------------------------
(* cf_strategy.py: the price levels and the orders of one ladder.          *)

\* open_to_high = etf_bars[(symbol, "high")] - etf_bars[(symbol, "open_price")]
OpenToHigh(bars) == [i \in 1..Len(bars) |-> bars[i].high - bars[i].open_price]

\* current_price + 0.1 * avg   (SELL: lower_price)
SellLowerPrice(current_price, avg) ==
    IF avg.nan THEN NaN ELSE Num(current_price + avg.v \div 10)

\* current_price + (avg + 2*std)   (SELL: upper_price)
SellUpperPrice(current_price, avg, std) ==
    IF avg.nan \/ std.nan THEN NaN
    ELSE Num(current_price + (avg.v + 2 * std.v))

\* current_price - 0.1 * avg   (BUY: upper_price)
BuyUpperPrice(current_price, avg) ==
    IF avg.nan THEN NaN ELSE Num(current_price - avg.v \div 10)

\* current_price - (avg + 2*std)   (BUY: lower_price)
BuyLowerPrice(current_price, avg, std) ==
    IF avg.nan \/ std.nan THEN NaN
    ELSE Num(current_price - (avg.v + 2 * std.v))

\* quotes[symbol]["askPrice"], in units of 1/PriceScale cent.
CurrentPrice(symbol) == quotes[symbol].askPrice * PriceScale

\* prices = np.linspace(lower_price, upper_price, len(quantities))
SellPrices(symbol, num) ==
    LET oth == OpenToHigh(etf_bars[symbol])
        cur == CurrentPrice(symbol)
    IN  Linspace(SellLowerPrice(cur, Mean(oth)),
                 SellUpperPrice(cur, Mean(oth), Std(oth)), num)

\* prices = np.linspace(upper_price, lower_price, len(quantities))
BuyPrices(symbol, num) ==
    LET oth == OpenToHigh(etf_bars[symbol])
        cur == CurrentPrice(symbol)
    IN  Linspace(BuyUpperPrice(cur, Mean(oth)),
                 BuyLowerPrice(cur, Mean(oth), Std(oth)), num)

\* Mutant of ZipOrders: the price levels are paired with the tranches in
\* the opposite order.
ZipOrders_Reversed(symbol, prices, quantities, instruction) ==
    [j \in 1..Min(Len(prices), Len(quantities)) |->
        [symbol |-> symbol, price |-> prices[j],
         quantity |-> quantities[Len(quantities) + 1 - j],
         instruction |-> instruction]]

\* for price, quantity in zip(prices, quantities): create_saved_order(...)
ZipOrders(symbol, prices, quantities, instruction) ==
    [j \in 1..Min(Len(prices), Len(quantities)) |->
        [symbol |-> symbol, price |-> prices[j],
         quantity |-> quantities[j], instruction |-> instruction]]

\* The saved orders create_sell_orders(symbol, number_shares) creates when
\* it does not raise.
SellOrders(symbol, number_shares) ==
    LET q == Quantities(number_shares)
    IN  ZipOrders(symbol, SellPrices(symbol, Len(q)), q, "SELL")

\* The saved orders create_buy_orders(symbol, number_shares) creates when
\* it does not raise.
BuyOrders(symbol, number_shares) ==
    LET q == Quantities(number_shares)
    IN  ZipOrders(symbol, BuyPrices(symbol, Len(q)), q, "BUY")

\* No call made yet.
NoCall == [op |-> "none"]

\* The outcome of a call: none yet, a returned value, or a raised error.
Pending == [status |-> "pending"]
Returned(value) == [status |-> "returned", value |-> value]
Raised(error) == [status |-> "raised", error |-> error]

\* CFStrategy.create_sell_orders(symbol, number_shares), called on a newly
\* constructed strategy.
create_sell_orders(symbol, number_shares) ==
    /\ call = NoCall
    /\ call' = [op |-> "create_sell_orders", symbol |-> symbol,
                number_shares |-> number_shares]
    /\ IF ScaleRaises(number_shares)
       THEN /\ ret' = Raised("ZeroDivisionError")
            /\ saved_orders' = saved_orders
       ELSE /\ ret' = Returned("None")
            /\ saved_orders' = saved_orders \o SellOrders(symbol, number_shares)
    /\ UNCHANGED <<etf_bars, quotes, etf_positions, est_return>>

\* CFStrategy.create_buy_orders(symbol, number_shares), called on a newly
\* constructed strategy.
create_buy_orders(symbol, number_shares) ==
    /\ call = NoCall
    /\ call' = [op |-> "create_buy_orders", symbol |-> symbol,
                number_shares |-> number_shares]
    /\ IF ScaleRaises(number_shares)
       THEN /\ ret' = Raised("ZeroDivisionError")
            /\ saved_orders' = saved_orders
       ELSE /\ ret' = Returned("None")
            /\ saved_orders' = saved_orders \o BuyOrders(symbol, number_shares)
    /\ UNCHANGED <<etf_bars, quotes, etf_positions, est_return>>

\* A daily bar, prices in cents.
Bar(o, h, l, c) == [open_price |-> o, high |-> h, low |-> l, close_price |-> c]

\* The bars a ladder history is drawn from: high >= open, as a price bar has.
LadderBars == {Bar(1000, 1000, 990, 1000), Bar(1000, 1020, 990, 1010),
               Bar(1010, 1060, 1000, 1050)}

\* Histories of at most n bars.
Histories(bars, n) == UNION {[1..k -> bars] : k \in 0..n}

\* The strategy after construction, with one ETF on the watchlist, and an
\* API holding no saved order.
InitLadder ==
    /\ etf_bars \in [{1} -> Histories(LadderBars, MaxBars)]
    /\ quotes = [s \in {1} |-> [askPrice |-> 1005, regularMarketLastPrice |-> 1004]]
    /\ etf_positions = <<>>
    /\ est_return = <<>>
    /\ saved_orders = <<>>
    /\ call = NoCall
    /\ ret = Pending

\* A caller invoking create_sell_orders with any symbol and share count.
CreateSellOrders ==
    \E symbol \in DOMAIN etf_bars, number_shares \in 0..MaxShares :
        create_sell_orders(symbol, number_shares)

\* A caller invoking create_buy_orders with any symbol and share count.
CreateBuyOrders ==
    \E symbol \in DOMAIN etf_bars, number_shares \in 0..MaxShares :
        create_buy_orders(symbol, number_shares)

NextLadder == CreateSellOrders \/ CreateBuyOrders

\* create_sell_orders / create_buy_orders called with any share count.
SpecLadder == InitLadder /\ [][NextLadder]_vars

-----------------------------------------------------------------------------
(* cf_strategy.py: run_sell_strategy and run_buy_strategy.                 *)

\* The literal .01 of sells["currentDayProfitLossPercentage"] > .01, in
\* hundredths.
ProfitThreshold == 1

\* The literal 500. of int(500./q), in dollars.
BuyBudget == 500

\* sells = sells[sells["currentDayProfitLossPercentage"] > .01]
Sells(positions) ==
    SelectSeq(positions,
              LAMBDA row : row.currentDayProfitLossPercentage > ProfitThreshold)

RECURSIVE SellLoop(_, _)
\* for row in sells.iterrows(): self.create_sell_orders(asset.name,
\* asset["longQuantity"]).  Nothing catches what create_sell_orders raises:
\* the loop ends there, the orders saved before it remain.
SellLoop(rows, orders) ==
    IF rows = <<>> THEN [orders |-> orders, ret |-> Returned("None")]
    ELSE IF ScaleRaises(Head(rows).longQuantity)
         THEN [orders |-> orders, ret |-> Raised("ZeroDivisionError")]
         ELSE SellLoop(Tail(rows),
                       orders \o SellOrders(Head(rows).symbol,
                                            Head(rows).longQuantity))

\* The position of symbol s in est_return.sort_values(ascending=False),
\* from 1: one more than the number of symbols that score higher.
RankOf(s) == 1 + Cardinality({t \in DOMAIN est_return : est_return[t] > est_return[s]})

\* buy_ranking = self._estimate_30_day_return().sort_values(ascending=False)
\* (its index: the symbols by descending score; the scores are distinct).
BuyRanking ==
    [i \in 1..Cardinality(DOMAIN est_return) |->
        CHOOSE s \in DOMAIN est_return : RankOf(s) = i]

\* The key [0, 10] of buy_ranking[[0, 10]]: a list of two positions.
BuyKey == <<0, 10>>

\* buy_ranking[[0, 10]] raises IndexError when a position of the key is
\* past the end of the ranking (the index holds ticker symbols, so an
\* integer list selects by position).
TickersRaise == \E k \in 1..Len(BuyKey) : BuyKey[k] >= Len(BuyRanking)

\* tickers = buy_ranking[[0, 10]].index: the symbols at the key's positions.
Tickers == [k \in 1..Len(BuyKey) |-> BuyRanking[BuyKey[k] + 1]]

\* int(500./q) for q = quotes[symbol]["regularMarketLastPrice"] (in cents
\* here): the double quotient truncates to the exact floor for every price
\* on the cent grid up to 600 dollars.
BuyShares(symbol) ==
    (BuyBudget * 100) \div quotes[symbol].regularMarketLastPrice

RECURSIVE BuyLoop(_, _)
\* for row in orders: self.create_buy_orders(row[0], row[1]).  Nothing
\* catches what create_buy_orders raises.
BuyLoop(tickers, orders) ==
    IF tickers = <<>> THEN [orders |-> orders, ret |-> Returned("None")]
    ELSE IF ScaleRaises(BuyShares(Head(tickers)))
         THEN [orders |-> orders, ret |-> Raised("ZeroDivisionError")]
         ELSE BuyLoop(Tail(tickers),
                      orders \o BuyOrders(Head(tickers),
                                          BuyShares(Head(tickers))))

\* CFStrategy.run_buy_strategy(), the first call of the entry point.
run_buy_strategy ==
    /\ call = NoCall
    /\ call' = [op |-> "run_buy_strategy"]
    /\ IF TickersRaise
       THEN /\ ret' = Raised("IndexError")
            /\ saved_orders' = saved_orders
       ELSE LET done == BuyLoop(Tickers, saved_orders)
            IN  /\ ret' = done.ret
                /\ saved_orders' = done.orders
    /\ UNCHANGED <<etf_bars, quotes, etf_positions, est_return>>

\* CFStrategy.run_sell_strategy(): called on a new strategy, or by the
\* entry point once run_buy_strategy has returned.
run_sell_strategy ==
    /\ \/ call = NoCall
       \/ call.op = "run_buy_strategy" /\ ret = Returned("None")
    /\ call' = [op |-> "run_sell_strategy"]
    /\ LET done == SellLoop(Sells(etf_positions), saved_orders)
       IN  /\ ret' = done.ret
           /\ saved_orders' = done.orders
    /\ UNCHANGED <<etf_bars, quotes, etf_positions, est_return>>

\* Most buy candidates a strategy holds in the batch specification.
MaxCandidates == 12
\* Most sellable positions a strategy holds in the batch specification.
MaxPositions == 3

\* The held symbols follow the buy candidates (possible_etf_buys holds no
\* symbol of a position).
HeldSymbols == (MaxCandidates + 1)..(MaxCandidates + MaxPositions)

\* A position row: its index (the symbol) and the two columns read.
PositionRows(s) ==
    {[symbol |-> s, longQuantity |-> q, currentDayProfitLossPercentage |-> pl] :
        q \in {1, 7}, pl \in {1, 2}}

\* Position tables of k rows, one row per held symbol.
PositionTables(k) ==
    {t \in [1..k -> UNION {PositionRows(s) : s \in HeldSymbols}] :
        \A i \in 1..k : t[i].symbol = MaxCandidates + i}

\* The quote of symbol s, in cents: prices from 45 to 335 dollars, so that
\* 500 dollars buy between 1 and 11 shares.
BatchQuote(s) ==
    [askPrice |-> 4500 + 2900 * ((s * 7) % 11) + 1,
     regularMarketLastPrice |-> 4500 + 2900 * ((s * 7) % 11)]

\* The strategy after construction: nc buy candidates with distinct scores,
\* a table of sellable positions, a two-bar history for every symbol.
InitBatch ==
    /\ \E nc \in 0..MaxCandidates :
          \E shift \in 0..(IF nc = 0 THEN 0 ELSE nc - 1) :
              est_return = [s \in 1..nc |-> (s + shift) % nc]
    /\ etf_positions \in UNION {PositionTables(k) : k \in 0..MaxPositions}
    /\ etf_bars = [s \in (1..MaxCandidates) \cup HeldSymbols |->
                      <<Bar(1000, 1020, 990, 1010), Bar(1010, 1060, 1000, 1050)>>]
    /\ quotes = [s \in (1..MaxCandidates) \cup HeldSymbols |-> BatchQuote(s)]
    /\ saved_orders = <<>>
    /\ call = NoCall
    /\ ret = Pending

NextBatch == run_buy_strategy \/ run_sell_strategy

\* The entry point's run_buy_strategy then run_sell_strategy, and
\* run_sell_strategy on its own.
SpecBatch == InitBatch /\ [][NextBatch]_vars

-----------------------------------------------------------------------------
(* orders.py: arithmetic on doubles.                                       *)

RECURSIVE Log2Floor(_)
\* The exponent of k: the j with 2^j <= k < 2^(j+1), for k >= 1.
Log2Floor(k) == IF k < 2 THEN 0 ELSE 1 + Log2Floor(k \div 2)

RECURSIVE Pow2Mod(_, _)
\* 2^e modulo m.
Pow2Mod(e, m) == IF e = 0 THEN 1 % m ELSE (2 * Pow2Mod(e - 1, m)) % m

\* Whether the double 1. / (1. / k) exceeds the integer k.  1/k rounds to
\* the 53-bit significand nearest to 2^(53+j) / k, j the exponent of k; with
\* r the remainder of 2^(53+j) by k, it rounds down when 2r < k, and the
\* reciprocal of that, k + r/q, rounds to a double above k when k*r >= 4^j.
\* (For k = 49: j = 5, r = 23, 49*23 = 1127 >= 1024, and 1./(1./49.) is
\* 49.00000000000001.)  A power of two divides exactly.
RecipOvershoots(k) ==
    LET j == Log2Floor(k)
        r == Pow2Mod(53 + j, k)
    IN  /\ r # 0
        /\ 2 * r < k
        /\ k * r >= (2 ^ j) * (2 ^ j)

\* math.floor(ratio) for ratio = quote / ref_quote > 1: the double quotient
\* of two integers never reaches the next integer, so this is the exact
\* floor.
FloorRatio(quote, ref_quote) == quote \div ref_quote

\* math.ceil(1. / ratio) for ratio = quote / ref_quote <= 1.  When quote
\* does not divide ref_quote the double is far from an integer and this is
\* the exact ceiling; when ref_quote = k * quote, ratio is the double 1/k
\* and the ceiling is k + 1 when 1. / ratio exceeds k.
CeilRecip(quote, ref_quote) ==
    IF ref_quote % quote # 0 THEN (ref_quote \div quote) + 1
    ELSE IF RecipOvershoots(ref_quote \div quote)
         THEN (ref_quote \div quote) + 1
         ELSE ref_quote \div quote

\* round(x, 2) of the double nearest to num/den cents, in cents: the nearest
\* cent; when num/den lies exactly between two cents the double lies a
\* rounding error to one side of the tie, and either cent can result.
Round2(num, den) ==
    LET lo == num \div den
        twice == 2 * (num % den)
    IN  IF twice < den THEN {lo}
        ELSE IF twice > den THEN {lo + 1}
        ELSE {lo, lo + 1}

-----------------------------------------------------------------------------
(* orders.py: auto_pegged.  Quotes are whole dollars here; the amounts     *)
(* returned are in cents.                                                  *)

\* The default amount=1000 of the three order functions, in dollars.
DefaultAmount == 1000

\* peg_change_amount, in cents: 0.01 * math.floor(ratio) if ratio > 1,
\* else 0.01.
PegChangeAmount(quote, ref_quote) ==
    IF quote > ref_quote THEN FloorRatio(quote, ref_quote) ELSE 1

\* ref_change_amount, in cents: 0.01 if ratio > 1, else
\* 0.01 * math.ceil(1. / ratio).
RefChangeAmount(quote, ref_quote) ==
    IF quote > ref_quote THEN 1 ELSE CeilRecip(quote, ref_quote)

\* round(quote * 0.995, 2) for BUY, round(quote * 1.005, 2) for SELL.
StartingPrices(quote, instruction) ==
    IF instruction = "BUY" THEN Round2(quote * 995, 10)
    ELSE Round2(quote * 1005, 10)

\* auto_pegged(symbol, instruction, amount, ref_symbol, quotes)
auto_pegged ==
    /\ call.op = "auto_pegged" /\ ret = Pending
    /\ LET quote == quotes[call.symbol]
           ref_quote == quotes[call.ref_symbol]
       IN  \E starting_price \in StartingPrices(quote, call.instruction),
              ref_lower_price \in Round2(9 * ref_quote * 100, 10),
              ref_upper_price \in Round2(11 * ref_quote * 100, 10) :
              ret' = Returned(
                  [symbol |-> call.symbol,
                   instruction |-> call.instruction,
                   quantity |-> call.amount \div quote,
                   starting_price |-> starting_price,
                   outside_rth |-> FALSE,
                   tif |-> "DAY",
                   peg_change_amount |-> PegChangeAmount(quote, ref_quote),
                   ref_change_amount |-> RefChangeAmount(quote, ref_quote),
                   ref_symbol |-> call.ref_symbol,
                   ref_price |-> ref_quote * 100,
                   ref_lower_price |-> ref_lower_price,
                   ref_upper_price |-> ref_upper_price])
    /\ UNCHANGED <<etf_bars, quotes, etf_positions, est_return, saved_orders, call>>

\* Largest quote, in dollars, handed to auto_pegged.
MaxPegQuote == 50

\* A call of auto_pegged with any pair of positive quotes.
InitPegged ==
    /\ quotes \in [{"PEG", "REF"} -> 1..MaxPegQuote]
    /\ \E instruction \in {"BUY", "SELL"} :
          call = [op |-> "auto_pegged", symbol |-> "PEG", ref_symbol |-> "REF",
                  instruction |-> instruction, amount |-> DefaultAmount]
    /\ ret = Pending
    /\ etf_bars = <<>>
    /\ etf_positions = <<>>
    /\ est_return = <<>>
    /\ saved_orders = <<>>

NextPegged == auto_pegged

SpecPegged == InitPegged /\ [][NextPegged]_vars

-----------------------------------------------------------------------------
(* orders.py: easy_bracket.  Quotes and prices are in cents, percents in   *)
(* tenths of a percent; an optional argument is <<>> for None and <<v>>    *)
(* for the value v.                                                        *)

\* if limit_percent is None: -0.3 for "BUY", 0.3 for "SELL"
DefaultLimitPercent(instruction) == IF instruction = "BUY" THEN -3 ELSE 3

\* Mutant of DefaultProfitPercent: the sign of the limit default.
DefaultProfitPercent_AsLimit(instruction) ==
    IF instruction = "BUY" THEN -3 ELSE 3

\* if profit_percent is None: 0.3 for "BUY", -0.3 for "SELL"
DefaultProfitPercent(instruction) == IF instruction = "BUY" THEN 3 ELSE -3

\* The argument, or its default when it is None.
OrDefault(opt, default) == IF opt = <<>> THEN default ELSE opt[1]

\* round(price * (1 + percent/100.), 2)
PercentOff(price, percent) == Round2(price * (1000 + percent), 1000)

\* int(amount / quote), amount in dollars and quote in cents: the double
\* quotient truncates to the exact floor.
AmountQuantity(amount, quote) == (amount * 100) \div quote

\* The dict easy_bracket returns for the arguments c, the quote of c.symbol
\* and the two rounded prices.
EasyOrder(c, quote, limit_price, profit_price) ==
    [symbol |-> c.symbol,
     instruction |-> c.instruction,
     quantity |-> OrDefault(c.quantity, AmountQuantity(c.amount, quote)),
     price |-> limit_price,
     tif |-> "DAY",
     outside_rth |-> TRUE,
     profit_price |-> profit_price,
     stop_price |-> "None"]

\* The dicts easy_bracket may return for the arguments c and the quote of
\* c.symbol (more than one only where round() meets a tie).
EasyBracketResults(c, quote) ==
    LET limit_percent ==
            OrDefault(c.limit_percent, DefaultLimitPercent(c.instruction))
        profit_percent ==
            OrDefault(c.profit_percent, DefaultProfitPercent(c.instruction))
    IN  UNION {{EasyOrder(c, quote, limit_price, profit_price) :
                   profit_price \in PercentOff(limit_price, profit_percent)} :
               limit_price \in PercentOff(quote, limit_percent)}

\* easy_bracket(symbol, instruction, quantity, amount, limit_percent,
\* profit_percent, quotes)
easy_bracket ==
    /\ call.op = "easy_bracket" /\ ret = Pending
    /\ \E order \in EasyBracketResults(call, quotes[call.symbol]) :
          ret' = Returned(order)
    /\ UNCHANGED <<etf_bars, quotes, etf_positions, est_return, saved_orders, call>>

\* Largest quote, in cents, handed to easy_bracket.
MaxEasyQuote == 600

\* A call of easy_bracket with any quote on the cent grid, the percents
\* left to their defaults or given.
InitEasy ==
    /\ quotes \in [{"SYM"} -> 1..MaxEasyQuote]
    /\ \E instruction \in {"BUY", "SELL"},
          quantity \in {<<>>, <<10>>},
          limit_percent \in {<<>>, <<-5>>},
          profit_percent \in {<<>>, <<5>>} :
          call = [op |-> "easy_bracket", symbol |-> "SYM",
                  instruction |-> instruction, quantity |-> quantity,
                  amount |-> DefaultAmount, limit_percent |-> limit_percent,
                  profit_percent |-> profit_percent]
    /\ ret = Pending
    /\ etf_bars = <<>>
    /\ etf_positions = <<>>
    /\ est_return = <<>>
    /\ saved_orders = <<>>

NextEasy == easy_bracket

SpecEasy == InitEasy /\ [][NextEasy]_vars

-----------------------------------------------------------------------------
(* orders.py: smart_bracket.  Bar prices and quotes are in cents, a        *)
(* probability is a number of 1/ProbDen, a quantile and an unrounded price *)
(* are in units of 1/ProbDen cent.                                         *)

\* The probability grid: limit_prob and profit_prob are k / ProbDen.
ProbDen == 4

\* n_days = 50
NDays == 50

\* bars[symbol].iloc[-n_days:]
LastBars(bars, n) ==
    IF Len(bars) <= n THEN bars
    ELSE SubSeq(bars, Len(bars) - n + 1, Len(bars))

\* The number of values of xs below x, or equal to x and before position i.
SortedBefore(xs, i) ==
    Cardinality({j \in 1..Len(xs) : xs[j] < xs[i] \/ (xs[j] = xs[i] /\ j < i)})

\* xs in ascending order.
Sorted(xs) ==
    [k \in 1..Len(xs) |-> xs[CHOOSE i \in 1..Len(xs) : SortedBefore(xs, i) = k - 1]]

\* Mutant of Quantile: the quantile at q instead of at 1 - q, that is
\* series.quantile(prob) in place of series.quantile(1 - prob).
Quantile_Complement(xs, k) ==
    LET srt == Sorted(xs)
        pos == (ProbDen - k) * (Len(xs) - 1)
        lo  == pos \div ProbDen + 1
        hi  == Min(lo + 1, Len(xs))
    IN  srt[lo] * ProbDen + (srt[hi] - srt[lo]) * (pos % ProbDen)

\* Series.quantile(q) for q = k / ProbDen, times ProbDen: linear
\* interpolation between the order statistics around position q * (n - 1).
Quantile(xs, k) ==
    LET srt == Sorted(xs)
        pos == k * (Len(xs) - 1)
        lo  == pos \div ProbDen + 1
        hi  == Min(lo + 1, Len(xs))
    IN  srt[lo] * ProbDen + (srt[hi] - srt[lo]) * (pos % ProbDen)

\* low = prices['open_price'] - prices['low']
LowSeries(prices) == [i \in 1..Len(prices) |-> prices[i].open_price - prices[i].low]

\* high = prices['high'] - prices['open_price']
HighSeries(prices) == [i \in 1..Len(prices) |-> prices[i].high - prices[i].open_price]

\* hilo = prices['high'] - prices['low']
HiLoSeries(prices) == [i \in 1..Len(prices) |-> prices[i].high - prices[i].low]

\* limit_price before rounding: quote - low.quantile(1 - limit_prob) for
\* BUY, quote + high.quantile(1 - limit_prob) for SELL.
LimitPrice(c) ==
    LET prices == LastBars(etf_bars[c.symbol], NDays)
        quote == quotes[c.symbol] * ProbDen
    IN  IF c.instruction = "BUY"
        THEN quote - Quantile(LowSeries(prices), ProbDen - c.limit_prob)
        ELSE quote + Quantile(HighSeries(prices), ProbDen - c.limit_prob)

\* profit_price before rounding: limit_price + hilo.quantile(1 - profit_prob)
\* for BUY, limit_price - hilo.quantile(1 - profit_prob) for SELL.
ProfitPrice(c) ==
    LET prices == LastBars(etf_bars[c.symbol], NDays)
    IN  IF c.instruction = "BUY"
        THEN LimitPrice(c) + Quantile(HiLoSeries(prices), ProbDen - c.profit_prob)
        ELSE LimitPrice(c) - Quantile(HiLoSeries(prices), ProbDen - c.profit_prob)

\* The dicts smart_bracket may return for the arguments c, with the bars and
\* quotes of the state (more than one only where round() meets a tie).
SmartBracketResults(c) ==
    {[symbol |-> c.symbol,
      instruction |-> c.instruction,
      quantity |-> AmountQuantity(c.amount, quotes[c.symbol]),
      price |-> price,
      tif |-> "DAY",
      outside_rth |-> TRUE,
      profit_price |-> profit_price,
      stop_price |-> "None"] :
        price \in Round2(LimitPrice(c), ProbDen),
        profit_price \in Round2(ProfitPrice(c), ProbDen)}

\* smart_bracket(symbol, instruction, quantity, amount, limit_prob,
\* profit_prob, bars, quotes): a caller may call it again with other
\* probabilities on the same bars and quotes.
smart_bracket(instruction, limit_prob, profit_prob) ==
    LET c == [op |-> "smart_bracket", symbol |-> "SYM",
              instruction |-> instruction, quantity |-> 100,
              amount |-> DefaultAmount, limit_prob |-> limit_prob,
              profit_prob |-> profit_prob]
    IN  /\ call.op = "smart_bracket"
        /\ call' = c
        /\ \E order \in SmartBracketResults(c) : ret' = Returned(order)
        /\ UNCHANGED <<etf_bars, quotes, etf_positions, est_return, saved_orders>>

\* A caller invoking smart_bracket with any instruction and probabilities.
SmartBracket ==
    \E instruction \in {"BUY", "SELL"}, limit_prob \in 0..ProbDen,
       profit_prob \in 0..ProbDen :
        smart_bracket(instruction, limit_prob, profit_prob)

\* Longest bar history handed to smart_bracket.
MaxSmartBars == 3

\* The bars a smart_bracket history is drawn from.
SmartBars == {Bar(1000, 1020, 1000, 1010), Bar(1000, 1020, 990, 1010),
              Bar(1000, 1030, 970, 1010)}

\* Bars and a quote for one symbol, before the first call.
InitSmart ==
    /\ etf_bars \in [{"SYM"} -> (Histories(SmartBars, MaxSmartBars) \ {<<>>})]
    /\ quotes = [s \in {"SYM"} |-> 1005]
    /\ call = [op |-> "smart_bracket"]
    /\ ret = Pending
    /\ etf_positions = <<>>
    /\ est_return = <<>>
    /\ saved_orders = <<>>

NextSmart == SmartBracket

SpecSmart == InitSmart /\ [][NextSmart]_vars

-----------------------------------------------------------------------------
(* price_calcs.py: calc_differentials.  A price table is a sequence of     *)
(* dated rows, oldest first, each row giving every symbol its bar; a       *)
(* fractional change is the pair <<numerator, denominator>>.               *)

\* bars.iloc[1:]
AfterFirst(rows) == IF rows = <<>> THEN <<>> ELSE Tail(rows)

\* bars.iloc[:-1]
BeforeLast(rows) == IF rows = <<>> THEN <<>> ELSE SubSeq(rows, 1, Len(rows) - 1)

\* The differentials of symbol sym between the row prev and the row cur.
DifferentialRow(prev, cur, sym) ==
    [cc   |-> <<cur[sym].close_price - prev[sym].close_price, prev[sym].close_price>>,
     co   |-> <<cur[sym].open_price - prev[sym].close_price, prev[sym].close_price>>,
     oc   |-> <<cur[sym].close_price - cur[sym].open_price, cur[sym].open_price>>,
     high |-> <<cur[sym].high - cur[sym].open_price, cur[sym].open_price>>,
     low  |-> <<cur[sym].low - cur[sym].open_price, cur[sym].open_price>>]

\* The table calc_differentials returns: one row for each date but the
\* first (index=bars.index[1:]), holding cc, co, oc, high and low of every
\* symbol.  The function has no check of the number of rows.
Differentials(bars, symbols) ==
    LET cur  == AfterFirst(bars)
        prev == BeforeLast(bars)
    IN  [i \in 1..Len(cur) |->
            [sym \in symbols |-> DifferentialRow(prev[i], cur[i], sym)]]

\* calc_differentials(bars)
calc_differentials ==
    /\ call.op = "calc_differentials" /\ ret = Pending
    /\ ret' = Returned(Differentials(call.bars, call.symbols))
    /\ UNCHANGED <<etf_bars, quotes, etf_positions, est_return, saved_orders, call>>

\* Most dated rows of a price table handed to calc_differentials.
MaxDiffRows == 3

\* The bars a row of the price table is drawn from.
DiffBars == {Bar(100, 110, 95, 105), Bar(105, 112, 100, 110)}

\* A call of calc_differentials with a price table of 0 to MaxDiffRows rows
\* for two symbols.
InitDiff ==
    /\ \E bars \in Histories([{"A", "B"} -> DiffBars], MaxDiffRows) :
          call = [op |-> "calc_differentials", bars |-> bars,
                  symbols |-> {"A", "B"}]
    /\ ret = Pending
    /\ etf_bars = <<>>
    /\ quotes = <<>>
    /\ etf_positions = <<>>
    /\ est_return = <<>>
    /\ saved_orders = <<>>

NextDiff == calc_differentials

SpecDiff == InitDiff /\ [][NextDiff]_vars

-----------------------------------------------------------------------------
(* scaled_price_change (price_calcs.py).  The prices table is modelled by   *)
(* one of its columns (every pandas step of the function works column by    *)
(* column), a sequence of positive prices, oldest first.  Returns are exact *)
(* fractions <<numerator, denominator>> in lowest terms; <<0, 0>> is NaN.   *)

RECURSIVE Gcd(_, _)
\* Greatest common divisor of two naturals.
Gcd(a, b) == IF b = 0 THEN a ELSE Gcd(b, a % b)

\* NaN as a fraction.
RNaN == <<0, 0>>

\* A fraction in lowest terms with a positive denominator.
RNorm(r) ==
    IF r[2] = 0 THEN RNaN
    ELSE LET n == IF r[2] < 0 THEN 0 - r[1] ELSE r[1]
             d == IF r[2] < 0 THEN 0 - r[2] ELSE r[2]
             g == Gcd(IF n < 0 THEN 0 - n ELSE n, d)
         IN  <<n \div g, d \div g>>

\* a + b on floats: NaN when either side is NaN.
RAdd(a, b) ==
    IF a = RNaN \/ b = RNaN THEN RNaN
    ELSE RNorm(<<a[1] * b[2] + b[1] * a[2], a[2] * b[2]>>)

\* a - b on floats.
RSub(a, b) ==
    IF a = RNaN \/ b = RNaN THEN RNaN
    ELSE RNorm(<<a[1] * b[2] - b[1] * a[2], a[2] * b[2]>>)

\* The values of a series that are not NaN (pandas skipna=True).
SkipNa(s) == SelectSeq(s, LAMBDA x : x # RNaN)

RECURSIVE RSum(_)
\* The sum of a series of fractions without NaN.
RSum(s) == IF s = <<>> THEN <<0, 1>> ELSE RAdd(Head(s), RSum(Tail(s)))

\* Series.mean(): the mean of the values that are not NaN, NaN if none.
RMean(s) ==
    LET xs == SkipNa(s)
    IN  IF xs = <<>> THEN RNaN
        ELSE LET t == RSum(xs) IN RNorm(<<t[1], t[2] * Len(xs)>>)

\* prices.pct_change(): NaN in the first row, then p[t]/p[t-1] - 1.
PctChange(prices) ==
    [t \in 1..Len(prices) |->
        IF t = 1 THEN RNaN
        ELSE RNorm(<<prices[t] - prices[t - 1], prices[t - 1]>>)]

\* s[::-1]
Reversed(s) == [t \in 1..Len(s) |-> s[Len(s) + 1 - t]]

\* dP = prices.pct_change().iloc[1:][::-1]: the returns, most recent first.
ReversedReturns(prices) == Reversed(AfterFirst(PctChange(prices)))

\* dP.rolling(window=i).sum(): NaN until i values are in the window.
RollingSum(dP, i) ==
    [t \in 1..Len(dP) |->
        IF t < i THEN RNaN ELSE RSum(SubSeq(dP, t - i + 1, t))]

\* max_window_length = int(len(prices) / 4)
max_window_length(prices) == Len(prices) \div 4

\* The first value assigned to scaled_dP.loc[i] (line 75): the mean of the
\* first i reversed returns less the mean of all rolling sums of width i.
WindowMean_Scaled(dP, i) ==
    LET avg == RMean(RollingSum(dP, i))
    IN  RSub(RMean(SubSeq(dP, 1, i)), avg)

\* The value assigned to scaled_dP.loc[i] last (line 76).  The std of line
\* 74 is a local that no assignment reads.
WindowMean(dP, i) == RMean(SubSeq(dP, 1, i))

\* scaled_dP.loc[i] = value
LocAssign(table, i, value) == [table EXCEPT ![i] = value]

RECURSIVE ScaledLoop(_, _, _, _)
\* for i in range(1, max_window_length): both assignments to row i, the
\* second over the first.
ScaledLoop(dP, table, i, stop) ==
    IF i >= stop THEN table
    ELSE ScaledLoop(dP,
                    LocAssign(LocAssign(table, i, WindowMean_Scaled(dP, i)),
                              i, WindowMean(dP, i)),
                    i + 1, stop)

\* The table scaled_price_change returns: index range(1, max_window_length),
\* every row NaN until the loop fills it.
ScaledPriceChange(prices) ==
    LET dP    == ReversedReturns(prices)
        stop  == max_window_length(prices)
        empty == [i \in 1..(IF stop > 1 THEN stop - 1 ELSE 0) |-> RNaN]
    IN  ScaledLoop(dP, empty, 1, stop)

\* scaled_price_change(prices)
scaled_price_change ==
    /\ call.op = "scaled_price_change" /\ ret = Pending
    /\ ret' = Returned(ScaledPriceChange(call.prices))
    /\ UNCHANGED <<etf_bars, quotes, etf_positions, est_return, saved_orders, call>>

\* Most rows of a price series handed to scaled_price_change.
MaxPriceRows == 12

\* The prices a row of the series is drawn from.
PriceLevels == {100, 125}

\* A call of scaled_price_change with a series of 0 to MaxPriceRows prices.
InitScaled ==
    /\ \E prices \in Histories(PriceLevels, MaxPriceRows) :
          call = [op |-> "scaled_price_change", prices |-> prices]
    /\ ret = Pending
    /\ etf_bars = <<>>
    /\ quotes = <<>>
    /\ etf_positions = <<>>
    /\ est_return = <<>>
    /\ saved_orders = <<>>

NextScaled == scaled_price_change

SpecScaled == InitScaled /\ [][NextScaled]_vars

-----------------------------------------------------------------------------
(* pca_analysis (price_calcs.py).  The prices table is a sequence of dated  *)
(* rows, each the prices of four symbols.  A float of the form n / sqrt(d2) *)
(* is the record [n, d2]; d2 = 0 makes it NaN (0/0).  PCA is scikit-learn's:*)
(* it is modelled by its contract, orthonormal axes whose scores are        *)
(* mutually orthogonal and ordered by falling variance, for price tables    *)
(* whose principal axes are rows of the 4x4 Hadamard matrix over 2.  The    *)
(* sign of an axis is the library's choice.                                 *)

\* n_components
n_components == 4

\* The columns of the prices table.
PcaSymbols == 1..4

\* A numpy array or pandas column of the values f[1], f[2], ...: the values
\* are computed once, when the array is built.
Array(f) == f \o <<>>

\* np.dot(a, b) of two vectors of integers.
Dot(a, b) == SumSeq(Array([i \in 1..Len(a) |-> a[i] * b[i]]))

\* n / sqrt(d2)
Surd(n, d2) == [n |-> n, d2 |-> d2]

\* The column of symbol j, oldest date first.
ColumnOf(prices, j) == Array([t \in 1..Len(prices) |-> prices[t][j]])

\* x - x.mean(), times len(x) (the common factor cancels in x / x.std()).
Centred(x) == Array([t \in 1..Len(x) |-> Len(x) * x[t] - SumSeq(x)])

\* x.std() squared (ddof = 1) of a centred column: NaN for fewer than two
\* rows.
SampleVar(c) == IF Len(c) < 2 THEN RNaN ELSE RNorm(<<Dot(c, c), Len(c) - 1>>)

\* X = prices.apply(lambda x: (x - x.mean()) / x.std()), column by column:
\* the entry of symbol j at date t is c[t] / sqrt(q).
Standardize(prices) ==
    Array([j \in PcaSymbols |->
              LET c == Centred(ColumnOf(prices, j))
              IN  [c |-> c, q |-> SampleVar(c)]])

\* X holds a NaN: a column of fewer than two rows or of zero variance (0/0).
HasNaN(X) == \E j \in PcaSymbols : X[j].q \in {RNaN, <<0, 1>>}

\* Twice the rows of an orthonormal basis of the four symbols.
Hadamard == << <<1, 1, 1, 1>>, <<1, -1, 1, -1>>,
               <<1, 1, -1, -1>>, <<1, -1, -1, 1>> >>

\* The candidate axes (pca.components_, times 2): the rows of Hadamard in
\* any order and with any signs.
Axes ==
    {[k \in 1..n_components |-> [j \in PcaSymbols |-> sgn[k] * Hadamard[perm[k]][j]]] :
        perm \in Permutations(1..n_components),
        sgn \in [1..n_components -> {-1, 1}]}

\* pca.transform(X) for the axes V and columns of one common variance q:
\* the score of date t on component k, times 2 * sqrt(q).
Scores(X, V) ==
    Array([k \in 1..n_components |->
              Array([t \in 1..Len(X[1].c) |->
                        SumSeq(Array([j \in 1..4 |-> X[j].c[t] * V[k][j]]))])])

\* V is what PCA(n_components).fit(X) finds: the scores on distinct axes are
\* uncorrelated and the axes are ordered by falling variance.
IsPrincipal(X, V) ==
    LET Z == Scores(X, V)
    IN  /\ \A j \in PcaSymbols : X[j].q = X[1].q
        /\ \A k, l \in 1..n_components : k # l => Dot(Z[k], Z[l]) = 0
        /\ \A k \in 1..(n_components - 1) : Dot(Z[k], Z[k]) >= Dot(Z[k + 1], Z[k + 1])

\* The fits the library may return for X.
Components(X) == {V \in Axes : IsPrincipal(X, V)}

\* lambda x: x / np.sqrt(np.dot(x, x)); the common scale of x cancels.
UnitVector(x) == LET d2 == Dot(x, x) IN Array([i \in 1..Len(x) |-> Surd(x[i], d2)])

\* norm_loadings = loadings.apply(lambda x: ...): DataFrame.apply with its
\* default axis=0 hands the function each COLUMN of loadings, the scores of
\* one component over all dates.  The result by date, then component.
NormLoadings(Z) ==
    [t \in 1..Len(Z[1]) |-> [k \in 1..n_components |-> UnitVector(Z[k])[t]]]

\* proj = np.dot(norm_loadings.T.values, prices.values), by component, then
\* symbol.
Projections(Z, prices) ==
    [k \in 1..n_components |->
        [j \in PcaSymbols |-> Surd(Dot(Z[k], ColumnOf(prices, j)), Dot(Z[k], Z[k]))]]

\* pca_analysis(prices): PCA.fit raises ValueError for fewer rows than
\* components and for an X that holds NaN.
pca_analysis ==
    /\ call.op = "pca_analysis" /\ ret = Pending
    /\ LET X == Standardize(call.prices)
       IN  IF Len(call.prices) < n_components \/ HasNaN(X)
           THEN ret' = Raised("ValueError")
           ELSE \E V \in Components(X) :
                   LET Z == Scores(X, V)
                   IN  ret' = Returned([norm_loadings |-> NormLoadings(Z),
                                        projections |-> Projections(Z, call.prices)])
    /\ UNCHANGED <<etf_bars, quotes, etf_positions, est_return, saved_orders, call>>

\* Most dated rows of a price table handed to pca_analysis.
MaxPcaRows == 6

\* The moves of four independent factors on the five dates on which the
\* factors move: each factor's moves sum to zero and the moves of two
\* factors are uncorrelated.
FactorMoves == {<<1, 1, 1, 1>>, <<-1, 1, 1, 1>>, <<0, -2, 1, 1>>,
                <<0, 0, -3, 1>>, <<0, 0, 0, -4>>}

\* No factor moves.
Quiet == <<0, 0, 0, 0>>

\* Factor histories of n dates: each move on one date, the other dates quiet.
FactorHistories(n) ==
    {f \in [1..n -> FactorMoves \cup {Quiet}] :
        \A mv \in FactorMoves : Cardinality({t \in 1..n : f[t] = mv}) = 1}

\* The price table of a factor history: symbol j is priced 100 plus its
\* Hadamard mix of the factors; the symbol flat (if any) stays at 100.
PriceTable(f, flat) ==
    [t \in 1..Len(f) |->
        [j \in PcaSymbols |->
            IF j = flat THEN 100 ELSE 100 + Dot(Hadamard[j], f[t])]]

\* A call of pca_analysis with a table of 5 to MaxPcaRows dates of four
\* symbols, at most one of them of zero variance.
InitPca ==
    /\ \E n \in 5..MaxPcaRows : \E f \in FactorHistories(n) : \E flat \in 0..4 :
          call = [op |-> "pca_analysis", prices |-> PriceTable(f, flat)]
    /\ ret = Pending
    /\ etf_bars = <<>>
    /\ quotes = <<>>
    /\ etf_positions = <<>>
    /\ est_return = <<>>
    /\ saved_orders = <<>>

NextPca == pca_analysis

SpecPca == InitPca /\ [][NextPca]_vars

-----------------------------------------------------------------------------
(* strategies.py: the strategy builders.  Each builder calls a function of  *)
(* orders.py once per row of its params list, passing keyword arguments; a  *)
(* keyword dict is a record.  Percents are in tenths of a percent and the   *)
(* probabilities of smart_volatility in tenths.                             *)

\* def easy_bracket(symbol, instruction, quantity, amount, limit_percent,
\*                  profit_percent, quotes)
easy_bracket_parameters ==
    {"symbol", "instruction", "quantity", "amount", "limit_percent",
     "profit_percent", "quotes"}

\* def smart_bracket(symbol, instruction, quantity, amount, limit_prob,
\*                   profit_prob, bars, quotes)
smart_bracket_parameters ==
    {"symbol", "instruction", "quantity", "amount", "limit_prob",
     "profit_prob", "bars", "quotes"}

\* Python's binding of a call's keywords to a function's parameters: a
\* keyword that names no parameter raises TypeError before the body runs.
Accepts(parameters, kw) == DOMAIN kw \subseteq parameters

\* The value bound to a parameter: the keyword's, or the default.
BoundArg(kw, name, default) == IF name \in DOMAIN kw THEN kw[name] ELSE default

\* The outcomes of orders.easy_bracket(**kw).
EasyBracketCall(kw) ==
    IF ~Accepts(easy_bracket_parameters, kw) THEN {Raised("TypeError")}
    ELSE LET c == [symbol |-> BoundArg(kw, "symbol", "None"),
                   instruction |-> BoundArg(kw, "instruction", "None"),
                   quantity |-> BoundArg(kw, "quantity", <<>>),
                   amount |-> BoundArg(kw, "amount", DefaultAmount),
                   limit_percent |-> BoundArg(kw, "limit_percent", <<>>),
                   profit_percent |-> BoundArg(kw, "profit_percent", <<>>)]
         IN  IF "quotes" \notin DOMAIN kw THEN {Raised("TypeError")}
             ELSE {Returned(order) :
                      order \in EasyBracketResults(c, kw.quotes[c.symbol])}

\* The outcomes of orders.smart_bracket(**kw), for the bars and quotes of
\* the state.
SmartBracketCall(kw) ==
    IF ~Accepts(smart_bracket_parameters, kw) THEN {Raised("TypeError")}
    ELSE LET c == [symbol |-> BoundArg(kw, "symbol", "None"),
                   instruction |-> BoundArg(kw, "instruction", "None"),
                   amount |-> BoundArg(kw, "amount", DefaultAmount),
                   limit_prob |-> BoundArg(kw, "limit_prob", ProbDen \div 2),
                   profit_prob |-> BoundArg(kw, "profit_prob", ProbDen \div 2)]
         IN  IF {"bars", "quotes"} \subseteq DOMAIN kw
             THEN {Returned(order) : order \in SmartBracketResults(c)}
             ELSE {Raised("TypeError")}

\* params of easy_volatility
EasyVolatilityParams ==
    << [instruction |-> "BUY", amount |-> 1000, percent |-> -2],
       [instruction |-> "BUY", amount |-> 2000, percent |-> -5],
       [instruction |-> "SELL", amount |-> 1000, percent |-> 2],
       [instruction |-> "SELL", amount |-> 2000, percent |-> 5] >>

\* params of long_brackets
LongBracketsParams ==
    << [instruction |-> "BUY", amount |-> 1000, percent |-> -1],
       [instruction |-> "BUY", amount |-> 1500, percent |-> -3],
       [instruction |-> "BUY", amount |-> 2000, percent |-> -5] >>

\* params of short_brackets
ShortBracketsParams ==
    << [instruction |-> "SELL", amount |-> 1000, percent |-> 1],
       [instruction |-> "SELL", amount |-> 1500, percent |-> 3],
       [instruction |-> "SELL", amount |-> 2000, percent |-> 5] >>

\* params of smart_volatility for a bias
SmartVolatilityParams(bias) ==
    << [instruction |-> "BUY", amount |-> 1000, probability |-> 7 + bias],
       [instruction |-> "BUY", amount |-> 2000, probability |-> 3 + bias],
       [instruction |-> "SELL", amount |-> 1000, probability |-> 7 - bias],
       [instruction |-> "SELL", amount |-> 2000, probability |-> 3 - bias] >>

\* The keywords of the call in the loop of easy_volatility, long_brackets
\* and short_brackets.
EasyKeywords(symbol, p) ==
    [symbol |-> symbol, instruction |-> p.instruction, amount |-> p.amount,
     percent |-> p.percent, bars |-> etf_bars, quotes |-> quotes]

\* The keywords of the call in the loop of smart_volatility.
SmartKeywords(symbol, p) ==
    [symbol |-> symbol, instruction |-> p.instruction, amount |-> p.amount,
     probability |-> p.probability, bars |-> etf_bars, quotes |-> quotes]

\* for p in params: bracket_orders.append(<call>); return bracket_orders.
\* outcomes[i] is the outcome of the call for params[i]; the first call that
\* raises ends the builder with its error.
BuilderResult(outcomes) ==
    LET failed == {i \in DOMAIN outcomes : outcomes[i].status = "raised"}
    IN  IF failed = {}
        THEN Returned([i \in DOMAIN outcomes |-> outcomes[i].value])
        ELSE outcomes[CHOOSE i \in failed : \A j \in failed : i <= j]

\* What a builder's loop may end with, calls[i] being the outcomes of the
\* call made for params[i].
BuilderResults(calls) ==
    {BuilderResult(outcomes) :
        outcomes \in {o \in [DOMAIN calls -> UNION {calls[i] : i \in DOMAIN calls}] :
                         \A i \in DOMAIN calls : o[i] \in calls[i]}}

\* easy_volatility(symbol, bars, quotes)
easy_volatility ==
    /\ call.op = "easy_volatility" /\ ret = Pending
    /\ ret' \in BuilderResults(
                  [i \in DOMAIN EasyVolatilityParams |->
                      EasyBracketCall(EasyKeywords(call.symbol, EasyVolatilityParams[i]))])
    /\ UNCHANGED <<etf_bars, quotes, etf_positions, est_return, saved_orders, call>>

\* long_brackets(symbol, bars, quotes)
long_brackets ==
    /\ call.op = "long_brackets" /\ ret = Pending
    /\ ret' \in BuilderResults(
                  [i \in DOMAIN LongBracketsParams |->
                      EasyBracketCall(EasyKeywords(call.symbol, LongBracketsParams[i]))])
    /\ UNCHANGED <<etf_bars, quotes, etf_positions, est_return, saved_orders, call>>

\* short_brackets(symbol, bars, quotes)
short_brackets ==
    /\ call.op = "short_brackets" /\ ret = Pending
    /\ ret' \in BuilderResults(
                  [i \in DOMAIN ShortBracketsParams |->
                      EasyBracketCall(EasyKeywords(call.symbol, ShortBracketsParams[i]))])
    /\ UNCHANGED <<etf_bars, quotes, etf_positions, est_return, saved_orders, call>>

\* smart_volatility(symbol, bias, bars, quotes)
smart_volatility ==
    /\ call.op = "smart_volatility" /\ ret = Pending
    /\ ret' \in BuilderResults(
                  [i \in DOMAIN SmartVolatilityParams(call.bias) |->
                      SmartBracketCall(SmartKeywords(call.symbol, SmartVolatilityParams(call.bias)[i]))])
    /\ UNCHANGED <<etf_bars, quotes, etf_positions, est_return, saved_orders, call>>

\* Largest quote, in cents, handed to a strategy builder.
MaxBuilderQuote == 40

\* A call of one of the builders for a symbol that has a quote and bars;
\* bias is the default 0 or a tenth either way.
InitBuilders ==
    /\ quotes \in [{"SYM"} -> 1..MaxBuilderQuote]
    /\ etf_bars \in [{"SYM"} -> {<<b>> : b \in SmartBars}]
    /\ \/ (\E op \in {"easy_volatility", "long_brackets", "short_brackets"} :
              call = [op |-> op, symbol |-> "SYM"])
       \/ (\E bias \in {-1, 0, 1} :
              call = [op |-> "smart_volatility", symbol |-> "SYM", bias |-> bias])
    /\ ret = Pending
    /\ etf_positions = <<>>
    /\ est_return = <<>>
    /\ saved_orders = <<>>

NextBuilders ==
    easy_volatility \/ long_brackets \/ short_brackets \/ smart_volatility

SpecBuilders == InitBuilders /\ [][NextBuilders]_vars

-----------------------------------------------------------------------------
(* Properties of the quantity ladder.                                      *)

\* The last call was create_sell_orders or create_buy_orders.
LadderCall == call.op \in {"create_sell_orders", "create_buy_orders"}

\* The tranche quantities of the saved orders, in submission order.
SavedQuantities == [j \in 1..Len(saved_orders) |-> saved_orders[j].quantity]

\* C1: whenever a ladder is produced for a positive number_shares, every
\* tranche quantity is a strictly positive integer, there are at most
\* min(20, number_shares) - 1 tranches, and the tranche quantities sum to at
\* most number_shares.
C1_LadderWithinTotal ==
    (LadderCall /\ call.number_shares > 0 /\ ret = Returned("None")) =>
        /\ \A j \in 1..Len(saved_orders) :
              saved_orders[j].quantity \in Nat \ {0}
        /\ Len(saved_orders) <= Min(20, call.number_shares) - 1
        /\ SumSeq(SavedQuantities) <= call.number_shares

\* A ladder of several tranches was produced whose quantities fall short of
\* the total (truncation left a residual).
C1_Witness ==
    /\ LadderCall /\ ret = Returned("None") /\ call.number_shares = 50
    /\ Len(saved_orders) > 10
    /\ SumSeq(SavedQuantities) < call.number_shares

\* C2 (as claimed): for number_shares 0 the call completes with no order
\* created, for number_shares 1 it completes with at most one order.
C2_DegenerateTotalsComplete ==
    (LadderCall /\ call.number_shares \in {0, 1}) =>
        /\ ret = Returned("None")
        /\ call.number_shares = 0 => saved_orders = <<>>
        /\ call.number_shares = 1 => Len(saved_orders) <= 1

\* C3 (as claimed): the ladder for number_shares = 100 has 19 tranches.
C3_Hundred_Nineteen ==
    (LadderCall /\ call.number_shares = 100) =>
        (ret = Returned("None") /\ Len(saved_orders) = 19)

\* C3 (amended): the ladder for number_shares = 100 has 18 tranches: the
\* first weight gives floor(100/380 * 2) = 0 and is dropped, the other 18
\* weights 4..38 give 1..10.
C3_Hundred_Eighteen ==
    (LadderCall /\ call.number_shares = 100) =>
        /\ ret = Returned("None")
        /\ Len(saved_orders) = 18
        /\ saved_orders[1].quantity = 1
        /\ saved_orders[18].quantity = 10

\* The ladder for 100 shares was created.
C3_Witness ==
    /\ call.op = "create_sell_orders" /\ call.number_shares = 100
    /\ ret = Returned("None") /\ Len(saved_orders) = 18

-----------------------------------------------------------------------------
(* Properties of the order sequence of one ladder.                         *)

\* The ladder's two price bounds, from the ask and the bar statistics:
\* near is ask +/- 0.1*avg, far is ask +/- (avg + 2*std).
NearPrice ==
    LET oth == OpenToHigh(etf_bars[call.symbol])
        cur == CurrentPrice(call.symbol)
    IN  IF call.op = "create_sell_orders"
        THEN SellLowerPrice(cur, Mean(oth))
        ELSE BuyUpperPrice(cur, Mean(oth))

FarPrice ==
    LET oth == OpenToHigh(etf_bars[call.symbol])
        cur == CurrentPrice(call.symbol)
    IN  IF call.op = "create_sell_orders"
        THEN SellUpperPrice(cur, Mean(oth), Std(oth))
        ELSE BuyLowerPrice(cur, Mean(oth), Std(oth))

\* The saved orders carry the tranche quantities in tranche order, the
\* quantities never decrease, the prices start at the near bound, end at the
\* far bound and never decrease (SELL) or never increase (BUY).
Sequenced ==
    LET q == Quantities(call.number_shares)
        n == Len(saved_orders)
        sell == call.op = "create_sell_orders"
    IN  /\ n = Len(q)
        /\ \A j \in 1..n :
              /\ saved_orders[j].quantity = q[j]
              /\ saved_orders[j].instruction = (IF sell THEN "SELL" ELSE "BUY")
              /\ saved_orders[j].symbol = call.symbol
        /\ \A j \in 1..(n - 1) :
              /\ saved_orders[j].quantity <= saved_orders[j + 1].quantity
              /\ IF sell
                 THEN FLeq(saved_orders[j].price, saved_orders[j + 1].price)
                 ELSE FLeq(saved_orders[j + 1].price, saved_orders[j].price)
        /\ n >= 1 => saved_orders[1].price = NearPrice /\ ~NearPrice.nan
        /\ n >= 2 => saved_orders[n].price = FarPrice /\ ~FarPrice.nan

\* Every bar of the symbol's history has high >= open.
HighAboveOpen ==
    \A i \in 1..Len(etf_bars[call.symbol]) :
        etf_bars[call.symbol][i].high >= etf_bars[call.symbol][i].open_price

-----------------------------------------------------------------------------
(* Properties of the batches.                                              *)

\* Some saved order sells symbol s.
SellSaved(s) ==
    \E j \in 1..Len(saved_orders) :
        saved_orders[j].symbol = s /\ saved_orders[j].instruction = "SELL"

\* Some saved order buys symbol s.
BuySaved(s) ==
    \E j \in 1..Len(saved_orders) :
        saved_orders[j].symbol = s /\ saved_orders[j].instruction = "BUY"

\* C7 (as claimed): after run_sell_strategy, every selected position whose
\* own order construction does not fail has its sell orders saved, whether
\* or not the construction failed for another selected position.
C7_SellFailureIsolated ==
    call.op = "run_sell_strategy" =>
        \A i \in 1..Len(Sells(etf_positions)) :
            LET row == Sells(etf_positions)[i]
            IN  ~ScaleRaises(row.longQuantity) => SellSaved(row.symbol)

\* The top slice of the ranking: positions 0 through 10, or every position
\* when there are fewer.
TopSlice == 1..Min(11, Len(BuyRanking))

\* C8 (as claimed): when run_buy_strategy returns, every candidate in the
\* top slice of the descending ranking whose floor(500 / last_price) shares
\* make a ladder has its buy ladder saved.
C8_TopSliceBought ==
    (call.op = "run_buy_strategy" /\ ret = Returned("None")) =>
        \A i \in TopSlice :
            Quantities(BuyShares(BuyRanking[i])) # <<>> =>
                BuySaved(BuyRanking[i])

-----------------------------------------------------------------------------
(* Properties of auto_pegged.                                              *)

\* C4 (as claimed): with ratio = quote / ref_quote, if ratio > 1 the
\* reference leg changes by one cent and the pegged leg by floor(ratio)
\* cents; if ratio <= 1 the pegged leg changes by one cent and the reference
\* leg by ceil(1 / ratio) = ceil(ref_quote / quote) cents.
C4_TickRule ==
    (call.op = "auto_pegged" /\ ret.status = "returned") =>
        LET quote == quotes[call.symbol]
            ref_quote == quotes[call.ref_symbol]
        IN  IF quote > ref_quote
            THEN /\ ret.value.ref_change_amount = 1
                 /\ ret.value.peg_change_amount = quote \div ref_quote
            ELSE /\ ret.value.peg_change_amount = 1
                 /\ ret.value.ref_change_amount * quote >= ref_quote
                 /\ (ret.value.ref_change_amount - 1) * quote < ref_quote

-----------------------------------------------------------------------------
(* Properties of easy_bracket.                                             *)

\* easy_bracket returned from a call that left both percents to their
\* defaults.
EasyDefaults ==
    /\ call.op = "easy_bracket" /\ ret.status = "returned"
    /\ call.limit_percent = <<>> /\ call.profit_percent = <<>>

\* With default percents the limit price is round(quote * 0.997, 2) for BUY
\* and round(quote * 1.003, 2) for SELL, the profit price
\* round(limit_price * 1.003, 2) for BUY and round(limit_price * 0.997, 2)
\* for SELL.
EasyDefaultPrices ==
    LET quote == quotes[call.symbol]
        limit_price == ret.value.price
        profit_price == ret.value.profit_price
    IN  IF call.instruction = "BUY"
        THEN /\ limit_price \in Round2(quote * 997, 1000)
             /\ profit_price \in Round2(limit_price * 1003, 1000)
        ELSE /\ limit_price \in Round2(quote * 1003, 1000)
             /\ profit_price \in Round2(limit_price * 997, 1000)

\* C6 (as claimed): with default percents, for every positive quote the
\* prices are the rounded products and the profit price is strictly above
\* the limit price for BUY, strictly below it for SELL.
C6_StrictlyProfitable ==
    EasyDefaults =>
        /\ EasyDefaultPrices
        /\ IF call.instruction = "BUY"
           THEN ret.value.profit_price > ret.value.price
           ELSE ret.value.profit_price < ret.value.price

\* C6 (amended): with default percents, for every positive quote the prices
\* are the rounded products and the profit price is at or above the limit
\* price for BUY, at or below it for SELL; it is strictly so exactly when
\* the limit price is at least 1.67, and equal to the limit price below
\* that (0.3 percent of the limit price then rounds to zero cents).
C6_ProfitableFromThreshold ==
    EasyDefaults =>
        /\ EasyDefaultPrices
        /\ IF call.instruction = "BUY"
           THEN /\ ret.value.profit_price >= ret.value.price
                /\ ret.value.profit_price > ret.value.price
                      <=> ret.value.price >= 167
           ELSE /\ ret.value.profit_price <= ret.value.price
                /\ ret.value.profit_price < ret.value.price
                      <=> ret.value.price >= 167

\* A default BUY bracket at a quote of 5.00: profit price above the limit.
C6_Witness ==
    /\ EasyDefaults /\ call.instruction = "BUY"
    /\ quotes[call.symbol] = 500
    /\ ret.value.profit_price > ret.value.price

-----------------------------------------------------------------------------
(* Properties of smart_bracket.                                            *)

\* Twice the median of xs: the middle order statistic, or the mean of the
\* two middle ones.
Median2(xs) ==
    LET srt == Sorted(xs)
        n == Len(xs)
    IN  IF n % 2 = 1 THEN 2 * srt[(n + 1) \div 2]
        ELSE srt[n \div 2] + srt[n \div 2 + 1]

\* The offset quote - limit_price of a BUY call c, before rounding.
BuyOffset(c) == quotes[c.symbol] * ProbDen - LimitPrice(c)

\* (open - low) is not the same on every bar of the window.
LowNotConstant ==
    LET low == LowSeries(LastBars(etf_bars["SYM"], NDays))
    IN  \E i, j \in 1..Len(low) : low[i] # low[j]

\* smart_bracket returned from a BUY call.
SmartBuyReturned ==
    /\ call.op = "smart_bracket" /\ ret.status = "returned"
    /\ call.instruction = "BUY"

\* With limit_prob = 0.5 the BUY limit price is the quote minus the median
\* of (open - low) over the window.
BuyMedianAtHalf ==
    (SmartBuyReturned /\ 2 * call.limit_prob = ProbDen) =>
        2 * BuyOffset(call)
            = ProbDen * Median2(LowSeries(LastBars(etf_bars["SYM"], NDays)))

\* Two successive BUY calls on the same bars, the second with the higher
\* limit_prob.
HigherProbCall ==
    /\ SmartBuyReturned /\ call'.instruction = "BUY"
    /\ LowNotConstant
    /\ call.limit_prob < call'.limit_prob

\* C5 (as claimed): limit_prob = 0.5 prices a BUY at the quote minus the
\* median of (open - low); and when (open - low) is not constant, a call
\* with a higher limit_prob has a strictly smaller offset quote - limit_price.
C5_StrictlyCloser ==
    /\ []BuyMedianAtHalf
    /\ [][HigherProbCall => BuyOffset(call') < BuyOffset(call)]_vars

\* C5 (amended): limit_prob = 0.5 prices a BUY at the quote minus the median
\* of (open - low); and a call with a higher limit_prob has a smaller or
\* equal offset quote - limit_price: a higher limit_prob never moves the
\* limit price farther from the quote.
C5_NeverFarther ==
    /\ []BuyMedianAtHalf
    /\ [][HigherProbCall => BuyOffset(call') <= BuyOffset(call)]_vars

\* A BUY call with limit_prob 0.75 on a history whose (open - low) varies,
\* priced strictly inside the range of (open - low).
C5_Witness ==
    /\ SmartBuyReturned /\ LowNotConstant
    /\ call.limit_prob = 3
    /\ BuyOffset(call) > 0
    /\ Len(etf_bars["SYM"]) = 3

-----------------------------------------------------------------------------
(* Properties of calc_differentials.                                       *)

\* C10 (as claimed): a call with a price table of fewer than 2 dated rows
\* ends with an InsufficientHistory error, not with a returned table.
C10_RejectsShortHistory ==
    (call.op = "calc_differentials" /\ ret # Pending /\ Len(call.bars) < 2) =>
        ret = Raised("InsufficientHistory")

-----------------------------------------------------------------------------
(* Properties of scaled_price_change.                                      *)

\* scaled_price_change has returned a table.
ScaledReturned == call.op = "scaled_price_change" /\ ret.status = "returned"

\* The return of the period ending at row t of the price series (t >= 2),
\* as the pair <<price change, earlier price>>.
ReturnAt(t) == <<call.prices[t] - call.prices[t - 1], call.prices[t - 1]>>

RECURSIVE RecentSum(_, _)
\* The exact sum of the w most recent returns of the series, the last of
\* which ends at row n.
RecentSum(n, w) ==
    IF w = 0 THEN <<0, 1>>
    ELSE LET r == ReturnAt(n)
             s == RecentSum(n - 1, w - 1)
         IN  <<r[1] * s[2] + s[1] * r[2], r[2] * s[2]>>

-----------------------------------------------------------------------------
(* Properties of pca_analysis.                                             *)

\* The squared L2 norm of the loading vector of one date: the sum of
\* n^2 / d2 over its components, NaN if a component is NaN.
RowNormSquared(row) ==
    IF \E k \in DOMAIN row : row[k].d2 = 0 THEN RNaN
    ELSE RSum([k \in DOMAIN row |-> RNorm(<<row[k].n * row[k].n, row[k].d2>>)])

\* C12 (as claimed): pca_analysis normalises per date: for any input in
\* which no symbol has zero variance, every row of norm_loadings (the
\* 4-component loading vector of one date) has L2 norm 1.
C12_RowsUnitNorm ==
    (/\ call.op = "pca_analysis"
     /\ ~HasNaN(Standardize(call.prices))
     /\ ret # Pending) =>
        /\ ret.status = "returned"
        /\ \A t \in DOMAIN ret.value.norm_loadings :
              RowNormSquared(ret.value.norm_loadings[t]) = <<1, 1>>

-----------------------------------------------------------------------------
(* Properties of the strategy builders.                                    *)

\* The instructions of the order list each builder documents.
DocumentedInstructions ==
    [easy_volatility  |-> <<"BUY", "BUY", "SELL", "SELL">>,
     long_brackets    |-> <<"BUY", "BUY", "BUY">>,
     short_brackets   |-> <<"SELL", "SELL", "SELL">>,
     smart_volatility |-> <<"BUY", "BUY", "SELL", "SELL">>]

\* C13 (as claimed): for a symbol present in quotes and bars every strategy
\* builder completes without error and returns its documented list:
\* easy_volatility 4 bracket orders (BUY, BUY, SELL, SELL), long_brackets 3
\* BUY orders, short_brackets 3 SELL orders and smart_volatility 4 bracket
\* orders, one per parameter row.
C13_BuildersReturnOrderLists ==
    (call.op \in DOMAIN DocumentedInstructions /\ ret # Pending) =>
        /\ ret.status = "returned"
        /\ Len(ret.value) = Len(DocumentedInstructions[call.op])
        /\ \A i \in DOMAIN ret.value :
              /\ ret.value[i].symbol = call.symbol
              /\ ret.value[i].instruction = DocumentedInstructions[call.op][i]

=============================================================================
